---------------------------- MODULE Spec2Model ----------------------------
(***************************************************************************)
(* MeetUp friend matching: FriendMatchingService of                        *)
(* src/MeetUp/friend_matching_service.py, with the repositories it is      *)
(* constructed with.                                                       *)
(*                                                                         *)
(* Conventions of the model                                                *)
(*  - a float the code computes is an exact rational <<num, den>> in       *)
(*    lowest terms (den > 0);                                              *)
(*  - a time string "HH:MM" is its four digits <<H, H, M, M>>;             *)
(*  - a coordinate is an integer number of 0.0001 degrees, so that the     *)
(*    code's PROXIMITY_THRESHOLD = 0.0005 is 5 units;                      *)
(*  - Python's None is the record None, a list is a sequence;               *)
(*  - threads holds the create_connection_request calls that run           *)
(*    concurrently (each at one of its collaborator calls), unique_pairs   *)
(*    whether the connection repository enforces one connection per pair.  *)
(***************************************************************************)
EXTENDS Integers, Sequences, FiniteSets, TLC

VARIABLES inp, call, schedules, connections, blocks, op, threads, unique_pairs

vars == <<inp, call, schedules, connections, blocks, op, threads, unique_pairs>>

(***************************************************************************)
(* Exact rational arithmetic for the code's floats.                        *)
(***************************************************************************)
RECURSIVE GCD(_, _)
GCD(a, b) == IF b = 0 THEN a ELSE GCD(b, a % b)

Rat(n, d) == LET g == GCD(n, d) IN <<n \div g, d \div g>>

RZero == <<0, 1>>
ROne == <<1, 1>>
RAdd(x, y) == Rat(x[1] * y[2] + y[1] * x[2], x[2] * y[2])
RMul(x, y) == Rat(x[1] * y[1], x[2] * y[2])
RLess(x, y) == x[1] * y[2] < y[1] * x[2]
RLeq(x, y) == x[1] * y[2] <= y[1] * x[2]

None == [none |-> TRUE]

(***************************************************************************)
(* Thresholds set by the constructor and by _calculate_single_path_overlap.*)
(***************************************************************************)
\* mutant: the minimum overlap lowered to 0.25
MIN_PATH_OVERLAP_QUARTER == Rat(25, 100)

MIN_PATH_OVERLAP == Rat(30, 100)

TIME_PROXIMITY_THRESHOLD == 15

PROXIMITY_THRESHOLD == 5

\* float('inf'): above every difference of two "%H:%M" times of one date.
Inf == 24 * 60

(***************************************************************************)
(* _parse_time: datetime.strptime(time_str, "%H:%M"), as minutes after     *)
(* midnight of the (common) default date.                                  *)
(***************************************************************************)
TimeStr(hh, mm) == <<hh \div 10, hh % 10, mm \div 10, mm % 10>>

_parse_time(time_str) ==
    (time_str[1] * 10 + time_str[2]) * 60 + time_str[3] * 10 + time_str[4]

Abs(x) == IF x < 0 THEN -x ELSE x

Min2(x, y) == IF y < x THEN y ELSE x

(***************************************************************************)
(* _calculate_time_proximity: the two nested loops, then the threshold.    *)
(***************************************************************************)
RECURSIVE CandidateLoop(_, _, _, _)
CandidateLoop(user_class, candidate_classes, j, min_diff) ==
    IF j > Len(candidate_classes) THEN min_diff
    ELSE LET candidate_class == candidate_classes[j]
             user_end == _parse_time(user_class.end_time)
             candidate_start == _parse_time(candidate_class.start_time)
             diff == Abs(candidate_start - user_end)
         IN IF user_class.day # candidate_class.day
            THEN CandidateLoop(user_class, candidate_classes, j + 1, min_diff)
            ELSE CandidateLoop(user_class, candidate_classes, j + 1,
                               Min2(min_diff, diff))

RECURSIVE UserLoop(_, _, _, _)
UserLoop(user_classes, candidate_classes, i, min_diff) ==
    IF i > Len(user_classes) THEN min_diff
    ELSE UserLoop(user_classes, candidate_classes, i + 1,
                  CandidateLoop(user_classes[i], candidate_classes, 1, min_diff))

\* mutant: the threshold itself is excluded
_calculate_time_proximity_strict(user_classes, candidate_classes) ==
    LET min_diff == UserLoop(user_classes, candidate_classes, 1, Inf)
    IN IF min_diff < TIME_PROXIMITY_THRESHOLD THEN min_diff ELSE -1

_calculate_time_proximity(user_classes, candidate_classes) ==
    LET min_diff == UserLoop(user_classes, candidate_classes, 1, Inf)
    IN IF min_diff <= TIME_PROXIMITY_THRESHOLD THEN min_diff ELSE -1

(***************************************************************************)
(* _calculate_single_path_overlap.  distance < PROXIMITY_THRESHOLD is      *)
(* compared on the squares (both sides are >= 0).                          *)
(***************************************************************************)
Near(point1, point2) ==
    (point1[1] - point2[1]) * (point1[1] - point2[1])
      + (point1[2] - point2[2]) * (point1[2] - point2[2])
    < PROXIMITY_THRESHOLD * PROXIMITY_THRESHOLD

\* the inner loop: TRUE when it reaches its break
RECURSIVE Point2Loop(_, _, _)
Point2Loop(point1, path2, j) ==
    IF j > Len(path2) THEN FALSE
    ELSE IF Near(point1, path2[j]) THEN TRUE
    ELSE Point2Loop(point1, path2, j + 1)

\* mutant: the break is missing, every near pair of points is counted
RECURSIVE Point1LoopNoBreak(_, _, _, _)
Point1LoopNoBreak(path1, path2, i, overlap_points) ==
    IF i > Len(path1) THEN overlap_points
    ELSE Point1LoopNoBreak(path1, path2, i + 1,
            overlap_points
              + Cardinality({j \in 1..Len(path2) : Near(path1[i], path2[j])}))

RECURSIVE Point1Loop(_, _, _, _)
Point1Loop(path1, path2, i, overlap_points) ==
    IF i > Len(path1) THEN overlap_points
    ELSE Point1Loop(path1, path2, i + 1,
                    IF Point2Loop(path1[i], path2, 1)
                    THEN overlap_points + 1 ELSE overlap_points)

_calculate_single_path_overlap(path1, path2) ==
    IF path1 = <<>> \/ path2 = <<>> THEN RZero
    ELSE Rat(Point1Loop(path1, path2, 1, 0), Len(path1))

(***************************************************************************)
(* _calculate_path_overlap: the mean of the per-pair overlaps.             *)
(***************************************************************************)
RECURSIVE PathPairLoop(_, _, _, _)
PathPairLoop(user_paths, candidate_paths, k, total_overlap) ==
    \* k counts the pairs (user path, candidate path) in loop order
    IF k > Len(user_paths) * Len(candidate_paths) THEN total_overlap
    ELSE LET user_path == user_paths[((k - 1) \div Len(candidate_paths)) + 1]
             candidate_path == candidate_paths[((k - 1) % Len(candidate_paths)) + 1]
         IN PathPairLoop(user_paths, candidate_paths, k + 1,
                RAdd(total_overlap,
                     _calculate_single_path_overlap(user_path, candidate_path)))

_calculate_path_overlap(user_paths, candidate_paths) ==
    IF user_paths = <<>> \/ candidate_paths = <<>> THEN RZero
    ELSE LET comparisons == Len(user_paths) * Len(candidate_paths)
             total_overlap == PathPairLoop(user_paths, candidate_paths, 1, RZero)
         IN RMul(total_overlap, <<1, comparisons>>)

(***************************************************************************)
(* _evaluate_match.  shared_classes is list(set & set): its order is the   *)
(* set's iteration order, so the model keeps the set.                      *)
(***************************************************************************)
CourseSet(classes) == {classes[i].course : i \in 1..Len(classes)}

\* mutant: the shared-class term is capped at one class
ScoreNormalized(n_shared, path_overlap, time_proximity) ==
    RAdd(RAdd(RMul(<<Min2(n_shared, 1), 1>>, <<4, 10>>), RMul(path_overlap, <<4, 10>>)),
         RMul(IF time_proximity > 0 THEN ROne ELSE RZero, <<2, 10>>))

\* mutant: a proximity of 0 minutes earns the time term too
ScoreAwardsZero(n_shared, path_overlap, time_proximity) ==
    RAdd(RAdd(RMul(<<n_shared, 1>>, <<4, 10>>), RMul(path_overlap, <<4, 10>>)),
         RMul(IF time_proximity >= 0 THEN ROne ELSE RZero, <<2, 10>>))

Score(n_shared, path_overlap, time_proximity) ==
    RAdd(RAdd(RMul(<<n_shared, 1>>, <<4, 10>>), RMul(path_overlap, <<4, 10>>)),
         RMul(IF time_proximity > 0 THEN ROne ELSE RZero, <<2, 10>>))

_evaluate_match(user_schedule, candidate_schedule) ==
    LET user_classes == CourseSet(user_schedule.classes)
        candidate_classes == CourseSet(candidate_schedule.classes)
        shared_classes == user_classes \cap candidate_classes
        time_proximity == _calculate_time_proximity(user_schedule.classes,
                                                    candidate_schedule.classes)
        path_overlap == _calculate_path_overlap(user_schedule.walking_paths,
                                                candidate_schedule.walking_paths)
        score == Score(Cardinality(shared_classes), path_overlap, time_proximity)
    IN IF RLess(score, <<3, 10>>) THEN None
       ELSE IF Cardinality(shared_classes) = 0 /\ RLess(path_overlap, MIN_PATH_OVERLAP)
       THEN None
       ELSE [suggested_user_id |-> candidate_schedule.user_id,
             score |-> score,
             shared_classes |-> shared_classes,
             path_overlap_percent |-> RMul(path_overlap, <<100, 1>>),
             time_proximity_minutes |-> time_proximity]

(***************************************************************************)
(* Input universes.                                                        *)
(***************************************************************************)
SeqsUpTo(S, n) == UNION {[1..k -> S] : k \in 0..n}

Class(course, building, day, start_time, end_time) ==
    [course |-> course, building |-> building, day |-> day,
     start_time |-> start_time, end_time |-> end_time]

Days == {"Monday", "Tuesday"}

\* 09:59 .. 10:31: differences of 0, 1, 15, 16 minutes and more, across an hour
TimePoints ==
    {TimeStr(9, 59), TimeStr(10, 0), TimeStr(10, 15), TimeStr(10, 30), TimeStr(10, 31)}

UserTimeClasses ==
    {Class("CS101", "Science Hall", d, TimeStr(9, 0), e) : d \in Days, e \in TimePoints}

CandidateTimeClasses ==
    {Class("ENG202", "English Hall", d, s, TimeStr(11, 45)) : d \in Days, s \in TimePoints}

MaxTimeClasses == 2

\* No two points are at exactly PROXIMITY_THRESHOLD: there the float
\* comparison of the code depends on rounding.
Points == {<<0, 0>>, <<0, 4>>, <<4, 0>>, <<9, 9>>}

MaxPathLen == 2

MaxPaths == 2

Paths == SeqsUpTo(Points, MaxPathLen)

NoCall == [fn |-> "none"]

NoOp == [name |-> "none"]

(***************************************************************************)
(* SpecTime: _calculate_time_proximity applied to two class lists.         *)
(***************************************************************************)
ServiceIdle ==
    /\ schedules = <<>>
    /\ connections = <<>>
    /\ blocks = {}
    /\ op = NoOp
    /\ threads = <<>>
    /\ unique_pairs = FALSE

InitTime ==
    /\ inp \in [user_classes : SeqsUpTo(UserTimeClasses, MaxTimeClasses),
                candidate_classes : SeqsUpTo(CandidateTimeClasses, MaxTimeClasses)]
    /\ call = NoCall
    /\ ServiceIdle

CalcTimeProximity ==
    /\ call = NoCall
    /\ call' = [fn |-> "_calculate_time_proximity",
                ret |-> _calculate_time_proximity(inp.user_classes,
                                                  inp.candidate_classes)]
    /\ UNCHANGED <<inp, schedules, connections, blocks, op, threads, unique_pairs>>

NextTime == CalcTimeProximity

SpecTime == InitTime /\ [][NextTime]_vars

(***************************************************************************)
(* SpecPath: the two path functions applied to paths over Points.          *)
(***************************************************************************)
InitPath ==
    /\ inp \in [path1 : Paths, path2 : Paths]
    /\ call = NoCall
    /\ ServiceIdle

CalcSinglePathOverlap ==
    /\ call = NoCall
    /\ call' = [fn |-> "_calculate_single_path_overlap",
                path1 |-> inp.path1, path2 |-> inp.path2,
                ret |-> _calculate_single_path_overlap(inp.path1, inp.path2)]
    /\ UNCHANGED <<inp, schedules, connections, blocks, op, threads, unique_pairs>>

CalcPathOverlap ==
    /\ call = NoCall
    /\ \E user_paths \in SeqsUpTo({inp.path1, inp.path2}, MaxPaths),
          candidate_paths \in SeqsUpTo({inp.path1, inp.path2}, MaxPaths) :
         call' = [fn |-> "_calculate_path_overlap",
                  user_paths |-> user_paths, candidate_paths |-> candidate_paths,
                  ret |-> _calculate_path_overlap(user_paths, candidate_paths)]
    /\ UNCHANGED <<inp, schedules, connections, blocks, op, threads, unique_pairs>>

NextPath == CalcSinglePathOverlap \/ CalcPathOverlap

SpecPath == InitPath /\ [][NextPath]_vars

(***************************************************************************)
(* SpecEval: _evaluate_match applied to a user and a candidate schedule.   *)
(***************************************************************************)
Schedule(user_id, classes, walking_paths) ==
    [user_id |-> user_id, classes |-> classes, walking_paths |-> walking_paths]

MaxClasses == 3

\* the user's classes: a prefix of this list
EvalUserClassList ==
    <<Class("CS101", "Science Hall", "Monday", TimeStr(9, 0), TimeStr(10, 15)),
      Class("MATH201", "Math Building", "Monday", TimeStr(11, 0), TimeStr(12, 15)),
      Class("ENG202", "English Hall", "Tuesday", TimeStr(10, 30), TimeStr(11, 45))>>

\* the candidate's classes: starting 75, 15 and 0 minutes from the end of the
\* user's CS101, and one on another day
EvalCandidateClasses ==
    {Class("CS101", "Science Hall", "Monday", TimeStr(9, 0), TimeStr(10, 15)),
     Class("ENG202", "English Hall", "Monday", TimeStr(10, 30), TimeStr(11, 45)),
     Class("MATH201", "Math Building", "Monday", TimeStr(10, 15), TimeStr(11, 30)),
     Class("PHYS101", "Physics Building", "Tuesday", TimeStr(14, 0), TimeStr(15, 15))}

PathHome == <<<<0, 0>>>>

PathHomeToLab == <<<<0, 0>>, <<9, 9>>>>

EvalUserPathLists == {<<>>, <<PathHomeToLab>>, <<PathHome, PathHomeToLab>>}

EvalCandidatePaths == {<<>>, PathHome, PathHomeToLab}

EvalUserSchedules ==
    {Schedule(1, SubSeq(EvalUserClassList, 1, k), ps) :
        k \in 0..Min2(MaxClasses, Len(EvalUserClassList)), ps \in EvalUserPathLists}

EvalCandidateSchedules ==
    {Schedule(2, cs, ps) : cs \in SeqsUpTo(EvalCandidateClasses, MaxClasses),
                           ps \in SeqsUpTo(EvalCandidatePaths, MaxPaths)}

InitEval ==
    /\ inp \in [user_schedule : EvalUserSchedules,
                candidate_schedule : EvalCandidateSchedules]
    /\ call = NoCall
    /\ ServiceIdle

EvaluateMatch ==
    /\ call = NoCall
    /\ call' = [fn |-> "_evaluate_match",
                ret |-> _evaluate_match(inp.user_schedule, inp.candidate_schedule)]
    /\ UNCHANGED <<inp, schedules, connections, blocks, op, threads, unique_pairs>>

NextEval == EvaluateMatch

SpecEval == InitEval /\ [][NextEval]_vars

(***************************************************************************)
(* SpecFloor: _evaluate_match applied where the acceptance rules decide.   *)
(* The user walks 4 or 5 points, 10 units apart; a path of the candidate   *)
(* runs beside the first k of them (none for k = 0), so that the path      *)
(* overlap takes the values 0, 1/10, ..., 1 and 1/8, ..., 7/8; the         *)
(* candidate has at most one class: none, or one that starts 0, 15 or 16   *)
(* minutes after the user's class ends, or on another day, or the user's   *)
(* own class.                                                              *)
(***************************************************************************)
Walk(k) == [i \in 1..k |-> <<0, 10 * (i - 1)>>]

Beside(k) == IF k = 0 THEN <<<<100, 100>>>> ELSE [i \in 1..k |-> <<1, 10 * (i - 1)>>]

FloorUserSchedules ==
    {Schedule(1, <<Class("CS101", "Science Hall", "Monday", TimeStr(9, 0),
                         TimeStr(10, 15))>>, ps) :
        ps \in {<<>>, <<Walk(4)>>, <<Walk(5)>>}}

FloorCandidateClasses ==
    {Class("ENG202", "English Hall", "Monday", TimeStr(10, 15), TimeStr(11, 30)),
     Class("ENG202", "English Hall", "Monday", TimeStr(10, 30), TimeStr(11, 45)),
     Class("ENG202", "English Hall", "Monday", TimeStr(10, 31), TimeStr(11, 46)),
     Class("PHYS101", "Physics Building", "Tuesday", TimeStr(14, 0), TimeStr(15, 15)),
     Class("CS101", "Science Hall", "Monday", TimeStr(9, 0), TimeStr(10, 15))}

FloorCandidateSchedules ==
    {Schedule(2, cs, ps) :
        cs \in {<<>>} \cup {<<c>> : c \in FloorCandidateClasses},
        ps \in SeqsUpTo({Beside(k) : k \in 0..5}, MaxPaths)}

InitFloor ==
    /\ inp \in [user_schedule : FloorUserSchedules,
                candidate_schedule : FloorCandidateSchedules]
    /\ call = NoCall
    /\ ServiceIdle

SpecFloor == InitFloor /\ [][NextEval]_vars

(***************************************************************************)
(* The repositories the service is constructed with (spec section 6).      *)
(* schedules: user id -> Schedule or None.  connections: the connections   *)
(* the connection repository holds, in creation order; the connection made *)
(* k-th has id k.  blocks: the pairs <<blocker, blocked>>.                 *)
(***************************************************************************)
Users == {1, 2, 3}

get_schedule_by_user(user_id) == schedules[user_id]

Links(conn, a, b) ==
    \/ conn.user1_id = a /\ conn.user2_id = b
    \/ conn.user1_id = b /\ conn.user2_id = a

RECURSIVE ConnectionsOf(_, _)
ConnectionsOf(user_id, k) ==
    \* the counterparts of user_id among the first k connections
    IF k = 0 THEN <<>>
    ELSE LET conn == connections[k]
             rest == ConnectionsOf(user_id, k - 1)
         IN IF conn.user1_id = user_id
            THEN Append(rest, [other_user_id |-> conn.user2_id])
            ELSE IF conn.user2_id = user_id
            THEN Append(rest, [other_user_id |-> conn.user1_id])
            ELSE rest

get_connections(user_id) == ConnectionsOf(user_id, Len(connections))

get_blocked_users(user_id) ==
    {[blocked_user_id |-> b] : b \in {x \in Users : <<user_id, x>> \in blocks}}

get_connection_between(a, b) ==
    IF \E k \in 1..Len(connections) : Links(connections[k], a, b)
    THEN connections[CHOOSE k \in 1..Len(connections) : Links(connections[k], a, b)]
    ELSE None

is_blocked(a, b) == <<a, b>> \in blocks

create_connection(user1_id, user2_id, status, suggested_at) ==
    [id |-> Len(connections) + 1, user1_id |-> user1_id, user2_id |-> user2_id,
     status |-> status, suggested_at |-> suggested_at]

\* get_schedules_by_university may answer with any stored schedules, in any
\* order, each at most once: the repository of demo_run.py ignores
\* exclude_user_ids, a filtering one answers with a subset.
HasSchedule == {u \in Users : schedules[u] # None}

Pools ==
    {[i \in 1..Len(us) |-> schedules[us[i]]] :
        us \in {q \in SeqsUpTo(HasSchedule, Cardinality(HasSchedule)) :
                  \A i, j \in 1..Len(q) : i # j => q[i] # q[j]}}

(***************************************************************************)
(* One collaborator call of an operation: the k-th call raises when        *)
(* fail = k (fail = 0: no call raises).                                    *)
(***************************************************************************)
RepoError(method) == [type |-> "CollaboratorFailure", method |-> method]

ValueError(msg) == [type |-> "ValueError", msg |-> msg]

RepoCall(method, args, k, fail, ret) ==
    IF fail = k
    THEN [method |-> method, args |-> args, raised |-> TRUE,
          error |-> RepoError(method)]
    ELSE [method |-> method, args |-> args, raised |-> FALSE, ret |-> ret]

Return(calls, value) ==
    [calls |-> calls, outcome |-> [kind |-> "return", value |-> value]]

\* a raise inside the try: the except clause logs and re-raises
Raise(calls, error) ==
    [calls |-> calls, outcome |-> [kind |-> "raise", error |-> error]]

\* mutant: the except clause swallows the failure and answers with nothing
FailedSwallowed(calls) == Return(calls, <<>>)

Failed(calls) == Raise(calls, calls[Len(calls)].error)

(***************************************************************************)
(* generate_suggestions(user_id, limit).  fail: the call that raises;      *)
(* pool: what get_schedules_by_university answers.                         *)
(***************************************************************************)
\* mutant: the missing schedule raised as an error instead of answered with []
NoScheduleRaises(calls) == Raise(calls, ValueError("No schedule found"))

\* if not user_schedule: log a warning, return []
NoScheduleResult(calls) == Return(calls, <<>>)

\* mutant: the requesting user's own id left out of the exclude set
ExcludeIdsWithoutSelf(existing_ids, blocked_ids, user_id) ==
    existing_ids \cup blocked_ids

\* existing_ids | blocked_ids | {user_id}
ExcludeIds(existing_ids, blocked_ids, user_id) ==
    existing_ids \cup blocked_ids \cup {user_id}

RECURSIVE SuggestionLoop(_, _, _, _)
SuggestionLoop(user_schedule, candidate_schedules, i, suggestions) ==
    IF i > Len(candidate_schedules) THEN suggestions
    ELSE LET suggestion == _evaluate_match(user_schedule, candidate_schedules[i])
         IN SuggestionLoop(user_schedule, candidate_schedules, i + 1,
                IF suggestion # None /\ RLess(RZero, suggestion.score)
                THEN Append(suggestions, suggestion) ELSE suggestions)

\* list.sort(key=score, reverse=True): stable, so equal scores keep their order
InsertByScore(sorted, s) ==
    LET k == Cardinality({i \in 1..Len(sorted) : RLeq(s.score, sorted[i].score)})
    IN SubSeq(sorted, 1, k) \o <<s>> \o SubSeq(sorted, k + 1, Len(sorted))

RECURSIVE SortLoop(_, _, _)
SortLoop(suggestions, i, sorted) ==
    IF i > Len(suggestions) THEN sorted
    ELSE SortLoop(suggestions, i + 1, InsertByScore(sorted, suggestions[i]))

\* mutant: reverse=True forgotten, the sort is ascending
SortByScoreAsc(suggestions) ==
    LET sorted == SortLoop(suggestions, 1, <<>>)
    IN [i \in 1..Len(sorted) |-> sorted[Len(sorted) + 1 - i]]

SortByScoreDesc(suggestions) == SortLoop(suggestions, 1, <<>>)

\* mutant: the slice is one too long
TruncateOffByOne(suggestions, limit) ==
    SubSeq(suggestions, 1, Min2(limit + 1, Len(suggestions)))

\* suggestions[:limit], limit >= 0
Truncate(suggestions, limit) == SubSeq(suggestions, 1, Min2(limit, Len(suggestions)))

generate_suggestions(user_id, limit, fail, pool) ==
    LET c1 == RepoCall("get_schedule_by_user", <<user_id>>, 1, fail,
                       get_schedule_by_user(user_id))
    IN IF c1.raised THEN Failed(<<c1>>)
       ELSE IF c1.ret = None THEN NoScheduleResult(<<c1>>)
       ELSE
       LET user_schedule == c1.ret
           c2 == RepoCall("get_connections", <<user_id>>, 2, fail,
                          get_connections(user_id))
       IN IF c2.raised THEN Failed(<<c1, c2>>)
          ELSE
          LET existing_ids == {c2.ret[i].other_user_id : i \in 1..Len(c2.ret)}
              c3 == RepoCall("get_blocked_users", <<user_id>>, 3, fail,
                             get_blocked_users(user_id))
          IN IF c3.raised THEN Failed(<<c1, c2, c3>>)
             ELSE
             LET blocked_ids == {block.blocked_user_id : block \in c3.ret}
                 c4 == RepoCall("get_schedules_by_university",
                                <<user_schedule.user_id,
                                  ExcludeIds(existing_ids, blocked_ids, user_id)>>,
                                4, fail, pool)
             IN IF c4.raised THEN Failed(<<c1, c2, c3, c4>>)
                ELSE
                LET suggestions == SuggestionLoop(user_schedule, c4.ret, 1, <<>>)
                IN Return(<<c1, c2, c3, c4>>,
                          Truncate(SortByScoreDesc(suggestions), limit))

(***************************************************************************)
(* create_connection_request, _is_blocked and accept_connection.           *)
(***************************************************************************)
\* mutant: only the requester's own blocks are looked up
_is_blocked_one_way(user1_id, user2_id, k, fail) ==
    LET b1 == RepoCall("is_blocked", <<user1_id, user2_id>>, k, fail,
                       is_blocked(user1_id, user2_id))
    IN IF b1.raised THEN [calls |-> <<b1>>, raised |-> TRUE]
       ELSE [calls |-> <<b1>>, raised |-> FALSE, ret |-> b1.ret]

\* is_blocked(user1, user2) or is_blocked(user2, user1), as calls k and k + 1:
\* the second is made only when the first answers False
_is_blocked(user1_id, user2_id, k, fail) ==
    LET b1 == RepoCall("is_blocked", <<user1_id, user2_id>>, k, fail,
                       is_blocked(user1_id, user2_id))
        b2 == RepoCall("is_blocked", <<user2_id, user1_id>>, k + 1, fail,
                       is_blocked(user2_id, user1_id))
    IN IF b1.raised THEN [calls |-> <<b1>>, raised |-> TRUE]
       ELSE IF b1.ret THEN [calls |-> <<b1>>, raised |-> FALSE, ret |-> TRUE]
       ELSE IF b2.raised THEN [calls |-> <<b1, b2>>, raised |-> TRUE]
       ELSE [calls |-> <<b1, b2>>, raised |-> FALSE, ret |-> b2.ret]

\* mutant: the answer of get_connection_between is never a conflict
create_connection_request_unchecked(requesting_user_id, target_user_id, fail) ==
    LET c1 == RepoCall("get_connection_between",
                       <<requesting_user_id, target_user_id>>, 1, fail,
                       get_connection_between(requesting_user_id, target_user_id))
        blocked == _is_blocked(requesting_user_id, target_user_id, 2, fail)
        c4 == RepoCall("create_connection",
                       <<requesting_user_id, target_user_id, "pending", "utcnow">>,
                       2 + Len(blocked.calls), fail,
                       create_connection(requesting_user_id, target_user_id,
                                         "pending", "utcnow"))
    IN IF c1.raised THEN Failed(<<c1>>)
       ELSE IF blocked.raised THEN Failed(<<c1>> \o blocked.calls)
       ELSE IF blocked.ret
       THEN Raise(<<c1>> \o blocked.calls,
                  ValueError("Cannot connect with blocked user"))
       ELSE IF c4.raised THEN Failed(<<c1>> \o blocked.calls \o <<c4>>)
       ELSE Return(<<c1>> \o blocked.calls \o <<c4>>, c4.ret)

create_connection_request(requesting_user_id, target_user_id, fail) ==
    LET c1 == RepoCall("get_connection_between",
                       <<requesting_user_id, target_user_id>>, 1, fail,
                       get_connection_between(requesting_user_id, target_user_id))
    IN IF c1.raised THEN Failed(<<c1>>)
       ELSE IF c1.ret # None
       THEN Raise(<<c1>>, ValueError("Connection already exists or is pending"))
       ELSE
       LET blocked == _is_blocked(requesting_user_id, target_user_id, 2, fail)
           k == 2 + Len(blocked.calls)
           c4 == RepoCall("create_connection",
                          <<requesting_user_id, target_user_id, "pending", "utcnow">>,
                          k, fail,
                          create_connection(requesting_user_id, target_user_id,
                                            "pending", "utcnow"))
       IN IF blocked.raised THEN Failed(<<c1>> \o blocked.calls)
          ELSE IF blocked.ret
          THEN Raise(<<c1>> \o blocked.calls,
                     ValueError("Cannot connect with blocked user"))
          ELSE IF c4.raised THEN Failed(<<c1>> \o blocked.calls \o <<c4>>)
          ELSE Return(<<c1>> \o blocked.calls \o <<c4>>, c4.ret)

\* mutant: only the target of a pending connection may accept it
accept_connection_validating(connection_id, accepting_user_id) ==
    IF \E k \in 1..Len(connections) :
          /\ connections[k].id = connection_id
          /\ connections[k].status = "pending"
          /\ connections[k].user2_id = accepting_user_id
    THEN Return(<<>>, [id |-> connection_id, status |-> "accepted",
                       connected_at |-> "utcnow"])
    ELSE Raise(<<>>, ValueError("Connection cannot be accepted"))

\* builds the accepted record; no repository is called
accept_connection(connection_id, accepting_user_id) ==
    Return(<<>>, [id |-> connection_id, status |-> "accepted",
                  connected_at |-> "utcnow"])

(***************************************************************************)
(* The operations as steps, called one at a time.  op records the          *)
(* operation just made, until its caller takes the outcome: its arguments, *)
(* the collaborator calls it made in order, how it ended, and the          *)
(* connections the repository held when it began.                          *)
(***************************************************************************)
MaxLimit == 2

MaxConns == 2

OpRecord(name, args, r) ==
    [name |-> name, args |-> args, calls |-> r.calls, outcome |-> r.outcome,
     connections_before |-> connections]

GenerateSuggestions ==
    /\ op = NoOp
    /\ \E user_id \in Users, limit \in 0..MaxLimit, fail \in 0..4 :
          \* the answer of get_schedules_by_university matters when no call raises
          \E pool \in IF fail = 0 THEN Pools ELSE {<<>>} :
             /\ op' = OpRecord("generate_suggestions",
                               [user_id |-> user_id, limit |-> limit],
                               generate_suggestions(user_id, limit, fail, pool))
             /\ fail <= Len(op'.calls)
    /\ UNCHANGED <<inp, call, schedules, connections, blocks, threads, unique_pairs>>

CreateConnectionRequest ==
    /\ op = NoOp
    /\ \E requesting_user_id \in Users, target_user_id \in Users, fail \in 0..4 :
          /\ op' = OpRecord("create_connection_request",
                            [requesting_user_id |-> requesting_user_id,
                             target_user_id |-> target_user_id],
                            create_connection_request(requesting_user_id,
                                                      target_user_id, fail))
          /\ fail <= Len(op'.calls)
          /\ op'.outcome.kind = "return" => Len(connections) < MaxConns
          \* create_connection has stored the connection it returned
          /\ connections' = IF op'.outcome.kind = "return"
                            THEN Append(connections, op'.outcome.value)
                            ELSE connections
    /\ UNCHANGED <<inp, call, schedules, blocks, threads, unique_pairs>>

AcceptConnection ==
    /\ op = NoOp
    /\ \E connection_id \in 1..(MaxConns + 1), accepting_user_id \in Users :
          op' = OpRecord("accept_connection",
                         [connection_id |-> connection_id,
                          accepting_user_id |-> accepting_user_id],
                         accept_connection(connection_id, accepting_user_id))
    /\ UNCHANGED <<inp, call, schedules, connections, blocks, threads, unique_pairs>>

\* the caller takes the outcome of the operation; the next one may begin
TakeResult ==
    /\ op # NoOp
    /\ op' = NoOp
    /\ UNCHANGED <<inp, call, schedules, connections, blocks, threads, unique_pairs>>

(***************************************************************************)
(* The schedules of demo_run.py, for any user id: a coordinate is its      *)
(* offset from (40.7128, -74.0060).                                        *)
(***************************************************************************)
Alice(u) ==
    Schedule(u,
        <<Class("CS101", "Science Hall", "Monday", TimeStr(9, 0), TimeStr(10, 15)),
          Class("MATH201", "Math Building", "Monday", TimeStr(11, 0), TimeStr(12, 15))>>,
        << <<<<0, 0>>, <<1, -1>>, <<2, -2>>>> >>)

Bob(u) ==
    Schedule(u,
        <<Class("CS101", "Science Hall", "Monday", TimeStr(9, 0), TimeStr(10, 15)),
          Class("ENG202", "English Hall", "Monday", TimeStr(10, 30), TimeStr(11, 45))>>,
        << <<<<0, 0>>, <<1, -1>>>> >>)

Charlie(u) ==
    Schedule(u,
        <<Class("PHYS101", "Physics Building", "Tuesday", TimeStr(14, 0), TimeStr(15, 15))>>,
        << <<<<11653, -13623>>>> >>)

DistinctPairs == {p \in Users \X Users : p[1] # p[2]}

BlockSets == {{}} \cup {{p} : p \in DistinctPairs}

Pending(id, a, b) ==
    [id |-> id, user1_id |-> a, user2_id |-> b, status |-> "pending",
     suggested_at |-> "utcnow"]

\* a connection the repository already holds as accepted
Accepted(id, a, b) == [Pending(id, a, b) EXCEPT !.status = "accepted"]

(***************************************************************************)
(* Spec: the service over a repository that starts without connections,    *)
(* or with one accepted connection between users 1 and 3.                  *)
(***************************************************************************)
Init ==
    /\ inp = <<>>
    /\ call = NoCall
    /\ schedules = [u \in Users |-> CASE u = 1 -> Alice(1) [] u = 2 -> Bob(2)
                                      [] OTHER -> None]
    /\ connections \in {<<>>, <<Accepted(1, 1, 3)>>}
    /\ blocks \in BlockSets
    /\ op = NoOp
    /\ threads = <<>>
    /\ unique_pairs = FALSE

Next ==
    GenerateSuggestions \/ CreateConnectionRequest \/ AcceptConnection \/ TakeResult

Spec == Init /\ [][Next]_vars

(***************************************************************************)
(* SpecSuggest: generate_suggestions over every assignment of the demo     *)
(* schedules to the users, with at most one connection (one per pair of    *)
(* users) and at most one block.                                           *)
(***************************************************************************)
InitSuggest ==
    /\ inp = <<>>
    /\ call = NoCall
    /\ schedules \in {w \in [Users -> {None} \cup UNION {{Alice(u), Bob(u), Charlie(u)} : u \in Users}] :
                        \A u \in Users : w[u] # None => w[u].user_id = u}
    /\ connections \in {<<>>, <<Pending(1, 1, 2)>>, <<Pending(1, 2, 3)>>,
                        <<Pending(1, 3, 1)>>}
    /\ blocks \in BlockSets
    /\ op = NoOp
    /\ threads = <<>>
    /\ unique_pairs = FALSE

NextSuggest == GenerateSuggestions \/ TakeResult

SpecSuggest == InitSuggest /\ [][NextSuggest]_vars

(***************************************************************************)
(* Properties of generate_suggestions, checked under SpecSuggest.          *)
(***************************************************************************)
IsGenerate == op.name = "generate_suggestions"

Returned == op.outcome.kind = "return"

\* generate_suggestions got the candidate pool (its fourth call answered)
GotPool == IsGenerate /\ Len(op.calls) = 4 /\ ~op.calls[4].raised

UserScheduleOfOp == op.calls[1].ret

PoolOfOp == op.calls[4].ret

EvalOfOp(j) == _evaluate_match(UserScheduleOfOp, PoolOfOp[j])

\* the candidates of the pool that evaluate to a suggestion with score > 0
QualifyingOfOp ==
    {j \in 1..Len(PoolOfOp) : EvalOfOp(j) # None /\ RLess(RZero, EvalOfOp(j).score)}

\* the qualifying candidates no returned suggestion stands for
LeftOutOfOp ==
    {j \in QualifyingOfOp :
        \A i \in 1..Len(op.outcome.value) :
            op.outcome.value[i].suggested_user_id # PoolOfOp[j].user_id}

\* C1: for every user id, limit >= 0 and candidate pool, generate_suggestions
\* returns at most `limit` suggestions, and none when limit = 0.
C1_AtMostLimit ==
    (IsGenerate /\ Returned) =>
        /\ Len(op.outcome.value) <= op.args.limit
        /\ (op.args.limit = 0 => op.outcome.value = <<>>)

\* C1 witness: the limit cut the result: more candidates qualified than the
\* limit allows, and exactly `limit` >= 1 suggestions are returned.
C1_Witness ==
    /\ GotPool /\ Returned
    /\ op.args.limit >= 1
    /\ Len(op.outcome.value) = op.args.limit
    /\ Cardinality(QualifyingOfOp) > op.args.limit

\* the ids generate_suggestions must keep out, read from the repository state
ConnectedTo(user_id) ==
    {x \in Users : \E k \in 1..Len(connections) : Links(connections[k], user_id, x)
                                                   /\ x # user_id}
        \cup {x \in {user_id} : \E k \in 1..Len(connections) :
                                    connections[k].user1_id = user_id
                                    /\ connections[k].user2_id = user_id}

BlockedBy(user_id) == {x \in Users : <<user_id, x>> \in blocks}

\* C2: the exclude set handed to get_schedules_by_university is exactly the
\* counterparts of the user's connections, the users they blocked and the user;
\* so when the repository answers with no schedule of that set, no suggestion
\* is for the requesting user, a connection or a blocked user.
C2_ExcludeSet ==
    (IsGenerate /\ Len(op.calls) = 4) =>
        LET user_id == op.args.user_id
            exclude == op.calls[4].args[2]
        IN /\ exclude = ConnectedTo(user_id) \cup BlockedBy(user_id) \cup {user_id}
           /\ exclude = {op.calls[2].ret[i].other_user_id : i \in 1..Len(op.calls[2].ret)}
                          \cup {b.blocked_user_id : b \in op.calls[3].ret}
                          \cup {user_id}
           /\ (Returned /\ \A j \in 1..Len(PoolOfOp) : PoolOfOp[j].user_id \notin exclude)
                => \A i \in 1..Len(op.outcome.value) :
                      LET s == op.outcome.value[i].suggested_user_id
                      IN /\ s # user_id
                         /\ s \notin ConnectedTo(user_id)
                         /\ s \notin BlockedBy(user_id)

\* C2 witness: the user has a connection or a block, the repository kept the
\* exclude set out of its answer, and a suggestion is returned.
C2_Witness ==
    /\ GotPool /\ Returned
    /\ Cardinality(op.calls[4].args[2]) = 2
    /\ \A j \in 1..Len(PoolOfOp) : PoolOfOp[j].user_id \notin op.calls[4].args[2]
    /\ op.outcome.value # <<>>

\* C3: the returned sequence is ordered by non-increasing score and is a
\* top-`limit` selection: every element is the non-null evaluate_match result
\* (score > 0) of a candidate of the pool, no candidate appears twice, as many
\* are returned as the limit and the pool allow, and no qualifying candidate
\* left out scores strictly more than a returned one.
C3_RankedTopLimit ==
    (GotPool /\ Returned) =>
        LET value == op.outcome.value
        IN /\ \A i, k \in 1..Len(value) : i < k => RLeq(value[k].score, value[i].score)
           /\ \A i \in 1..Len(value) : \E j \in QualifyingOfOp : value[i] = EvalOfOp(j)
           /\ \A i, k \in 1..Len(value) :
                 i # k => value[i].suggested_user_id # value[k].suggested_user_id
           /\ Len(value) = Min2(op.args.limit, Cardinality(QualifyingOfOp))
           /\ \A j \in LeftOutOfOp : \A i \in 1..Len(value) :
                 RLeq(EvalOfOp(j).score, value[i].score)

\* C3 witness: two suggestions of different scores are returned, the pool held
\* a lower-scoring candidate before a higher-scoring one, and a qualifying
\* candidate is left out.
C3_Witness ==
    /\ GotPool /\ Returned
    /\ Len(op.outcome.value) = 2
    /\ RLess(op.outcome.value[2].score, op.outcome.value[1].score)
    /\ LeftOutOfOp # {}
    /\ \E j, k \in QualifyingOfOp : j < k /\ RLess(EvalOfOp(j).score, EvalOfOp(k).score)

\* C4: when get_schedule_by_user finds no schedule for the user,
\* generate_suggestions returns the empty sequence without raising, and makes
\* no call to get_connections, get_blocked_users or get_schedules_by_university.
C4_NoScheduleShortCircuit ==
    (IsGenerate /\ ~op.calls[1].raised /\ op.calls[1].ret = None) =>
        /\ op.outcome = [kind |-> "return", value |-> <<>>]
        /\ Len(op.calls) = 1
        /\ op.calls[1].method = "get_schedule_by_user"
        /\ op.calls[1].args = <<op.args.user_id>>

\* C4 witness: a user without a schedule asked, while another user has one.
C4_Witness ==
    /\ IsGenerate /\ Returned
    /\ schedules[op.args.user_id] = None
    /\ HasSchedule # {}

(***************************************************************************)
(* Properties of the connection operations and of failure propagation,     *)
(* checked under Spec.                                                     *)
(***************************************************************************)
IsCreate == op.name = "create_connection_request"

IsAccept == op.name = "accept_connection"

MethodsCalled == {op.calls[i].method : i \in 1..Len(op.calls)}

TimesCalled(method) ==
    Cardinality({i \in 1..Len(op.calls) : op.calls[i].method = method})

SomeCallRaised == \E i \in 1..Len(op.calls) : op.calls[i].raised

LinkedBefore(a, b) ==
    \E k \in 1..Len(op.connections_before) : Links(op.connections_before[k], a, b)

\* C5: create_connection_request(a, b) fails with a conflict error (the
\* ValueError, whenever the repository answered the queries) if a connection
\* already links a and b, or a has blocked b, or b has blocked a; then
\* create_connection is not called and the repository's connections are as
\* they were.
C5_ConflictLeavesRepository ==
    IsCreate =>
        LET a == op.args.requesting_user_id
            b == op.args.target_user_id
        IN (LinkedBefore(a, b) \/ <<a, b>> \in blocks \/ <<b, a>> \in blocks) =>
              /\ op.outcome.kind = "raise"
              /\ ~SomeCallRaised => op.outcome.error.type = "ValueError"
              /\ "create_connection" \notin MethodsCalled
              /\ connections = op.connections_before

\* C5 witness: the target has blocked the requester (the second direction),
\* no connection links them, and the request ended with the conflict error.
C5_Witness ==
    /\ IsCreate
    /\ <<op.args.target_user_id, op.args.requesting_user_id>> \in blocks
    /\ <<op.args.requesting_user_id, op.args.target_user_id>> \notin blocks
    /\ ~LinkedBefore(op.args.requesting_user_id, op.args.target_user_id)
    /\ op.outcome = [kind |-> "raise",
                     error |-> ValueError("Cannot connect with blocked user")]

\* C6: a successful create_connection_request stores a pending connection;
\* after accept_connection(connection_id, accepting_user_id) the connection
\* the repository holds under that id has status accepted; and no status
\* other than pending and accepted is reached.
C6_AcceptedInRepository ==
    /\ (IsCreate /\ op.outcome.kind = "return") =>
          /\ connections = Append(op.connections_before, op.outcome.value)
          /\ op.outcome.value.status = "pending"
    /\ IsAccept =>
          \A k \in 1..Len(connections) :
             connections[k].id = op.args.connection_id
                => connections[k].status = "accepted"
    /\ \A k \in 1..Len(connections) : connections[k].status \in {"pending", "accepted"}

\* C7 as stated: when a repository call of generate_suggestions or
\* create_connection_request raises, the caller gets that same failure and no
\* result, the failing call is the last one made, every collaborator method
\* was invoked at most once, and create_connection was not called after a
\* failure of get_connection_between or is_blocked.
C7_EachMethodOnce ==
    ((IsGenerate \/ IsCreate) /\ SomeCallRaised) =>
        LET last == op.calls[Len(op.calls)]
        IN /\ last.raised
           /\ \A i \in 1..(Len(op.calls) - 1) : ~op.calls[i].raised
           /\ op.outcome = [kind |-> "raise", error |-> last.error]
           /\ connections = op.connections_before
           /\ \A m \in MethodsCalled : TimesCalled(m) <= 1
           /\ last.method \in {"get_connection_between", "is_blocked"}
                 => "create_connection" \notin MethodsCalled

\* C7 as amended: as above, except that is_blocked may have been invoked twice,
\* the second time with the arguments swapped and only after the first call
\* answered False; every other method was invoked at most once.
C7_FailurePropagates ==
    ((IsGenerate \/ IsCreate) /\ SomeCallRaised) =>
        LET last == op.calls[Len(op.calls)]
        IN /\ last.raised
           /\ \A i \in 1..(Len(op.calls) - 1) : ~op.calls[i].raised
           /\ op.outcome = [kind |-> "raise", error |-> last.error]
           /\ connections = op.connections_before
           /\ \A m \in MethodsCalled \ {"is_blocked"} : TimesCalled(m) <= 1
           /\ TimesCalled("is_blocked") <= 2
           /\ \A i, k \in 1..Len(op.calls) :
                 (i < k /\ op.calls[i].method = "is_blocked"
                        /\ op.calls[k].method = "is_blocked")
                    => /\ op.calls[i].ret = FALSE
                       /\ op.calls[k].args = <<op.calls[i].args[2], op.calls[i].args[1]>>
           /\ last.method \in {"get_connection_between", "is_blocked"}
                 => "create_connection" \notin MethodsCalled

\* C7 witness: the second is_blocked call of a request raised, and the request
\* ended with that failure.
C7_Witness ==
    /\ IsCreate
    /\ Len(op.calls) = 3
    /\ op.calls[3].raised
    /\ op.outcome = [kind |-> "raise", error |-> RepoError("is_blocked")]

(***************************************************************************)
(* Properties of the scoring functions, checked under SpecEval, SpecTime   *)
(* and SpecPath.                                                           *)
(***************************************************************************)
IsEval == call.fn = "_evaluate_match"

\* the distinct course codes present in both schedules of inp
SharedCourses ==
    {inp.user_schedule.classes[i].course : i \in 1..Len(inp.user_schedule.classes)}
        \cap {inp.candidate_schedule.classes[j].course :
                 j \in 1..Len(inp.candidate_schedule.classes)}

\* C8: evaluate_match computes score = 0.4 * (number of distinct shared course
\* codes) + 0.4 * path_overlap + 0.2 * (1 if time_proximity > 0 else 0), the
\* count not normalized (three shared classes score above 1.0), and returns a
\* suggestion with that score iff score >= 0.3 and not (no shared class and
\* path_overlap < 0.30); otherwise no match.
C8_ScoreAndAcceptance ==
    IsEval =>
        LET n == Cardinality(SharedCourses)
            p == _calculate_path_overlap(inp.user_schedule.walking_paths,
                                         inp.candidate_schedule.walking_paths)
            t == _calculate_time_proximity(inp.user_schedule.classes,
                                           inp.candidate_schedule.classes)
            \* score = num / den, with den = 10 * p[2]
            num == (4 * n + 2 * (IF t > 0 THEN 1 ELSE 0)) * p[2] + 4 * p[1]
            den == 10 * p[2]
            accepted == /\ 10 * num >= 3 * den
                        /\ ~(n = 0 /\ 100 * p[1] < 30 * p[2])
        IN /\ (call.ret # None) <=> accepted
           /\ call.ret # None =>
                 /\ call.ret.score[1] * den = num * call.ret.score[2]
                 /\ call.ret.suggested_user_id = inp.candidate_schedule.user_id
                 /\ call.ret.shared_classes = SharedCourses
                 /\ call.ret.time_proximity_minutes = t
           /\ n >= 3 => (call.ret # None /\ RLess(ROne, call.ret.score))

\* C8 witness: three shared classes, one of them listed twice by the candidate,
\* give a suggestion scoring above 1.0.
C8_Witness ==
    /\ IsEval
    /\ call.ret # None
    /\ Cardinality(call.ret.shared_classes) = 3
    /\ RLess(ROne, call.ret.score)

\* the differences |candidate start - user end| over the same-day pairs of inp
SameDayDiffs ==
    {Abs(_parse_time(inp.candidate_classes[q[2]].start_time)
           - _parse_time(inp.user_classes[q[1]].end_time)) :
        q \in {r \in (1..Len(inp.user_classes)) \X (1..Len(inp.candidate_classes)) :
                 inp.user_classes[r[1]].day = inp.candidate_classes[r[2]].day}}

\* C9: the time proximity is the minimum over the same-day pairs (user class,
\* candidate class) of |candidate start_time - user end_time| in minutes; it is
\* that minimum when <= 15 (15 included) and -1 when there is no same-day pair
\* or the minimum exceeds 15; so it lies in {-1} \cup 0..15.
C9_TimeProximityIsDirectedMinimum ==
    call.fn = "_calculate_time_proximity" =>
        /\ call.ret \in {-1} \cup 0..15
        /\ SameDayDiffs = {} => call.ret = -1
        /\ \A m \in SameDayDiffs :
              (\A d \in SameDayDiffs : m <= d)
                 => call.ret = IF m <= 15 THEN m ELSE -1

\* C9 witness: the nearest same-day pair is exactly 15 minutes apart and the
\* result is 15, while the two lists swapped give -1: the direction matters.
C9_Witness ==
    /\ call.fn = "_calculate_time_proximity"
    /\ call.ret = 15
    /\ Cardinality(SameDayDiffs) >= 2
    /\ _calculate_time_proximity(inp.candidate_classes, inp.user_classes) = -1

\* a point of path1 is covered when some point of path2 is nearer than 0.0005
Covered(path1, path2) ==
    {i \in 1..Len(path1) :
        \E j \in 1..Len(path2) :
            (path1[i][1] - path2[j][1]) * (path1[i][1] - path2[j][1])
              + (path1[i][2] - path2[j][2]) * (path1[i][2] - path2[j][2]) < 25}

\* C10: the overlap fraction of a non-empty path against itself is 1.0, and so
\* is path_overlap of two path sets that each consist of that path; in general
\* the fraction of path1 against path2 is (number of points of path1 with a
\* point of path2 nearer than 0.0005) / |path1|, each point counted once, so
\* it lies in [0, 1].
C10_PathOverlapFraction ==
    /\ call.fn = "_calculate_single_path_overlap" =>
          /\ (call.path1 # <<>> /\ call.path1 = call.path2) => call.ret = ROne
          /\ call.path1 # <<>> =>
                call.ret[1] * Len(call.path1)
                   = Cardinality(Covered(call.path1, call.path2)) * call.ret[2]
          /\ RLeq(RZero, call.ret) /\ RLeq(call.ret, ROne)
    /\ (/\ call.fn = "_calculate_path_overlap"
        /\ Len(call.user_paths) = 1
        /\ call.user_paths = call.candidate_paths
        /\ call.user_paths[1] # <<>>) => call.ret = ROne

\* C10 witness: a path of two different points, each near both points of the
\* other path, compared with itself alone: path_overlap is 1.0.
C10_Witness ==
    /\ call.fn = "_calculate_path_overlap"
    /\ call.user_paths = call.candidate_paths
    /\ Len(call.user_paths) = 1
    /\ Len(call.user_paths[1]) = 2
    /\ call.user_paths[1][1] # call.user_paths[1][2]
    /\ Cardinality(Covered(call.user_paths[1], <<call.user_paths[1][1]>>)) = 2
    /\ call.ret = ROne

(***************************************************************************)
(* SpecRace: create_connection_request calls that run concurrently, one    *)
(* per thread.  The service holds no lock and no state of its own between  *)
(* two collaborator calls, so a thread advances by one collaborator call   *)
(* at a time, with the code that follows the call.  A thread keeps the     *)
(* calls it made, how it ended and checked_at, the number of connections   *)
(* the repository held when get_connection_between answered it.            *)
(* unique_pairs: create_connection itself rejects a second connection for  *)
(* a pair (the check-then-create made atomic by the repository).           *)
(***************************************************************************)
MaxThreads == 2

Threads == 1..MaxThreads

IdleThread == [pc |-> "idle"]

StartedThread(requesting_user_id, target_user_id) ==
    [pc |-> "get_connection_between",
     requesting_user_id |-> requesting_user_id, target_user_id |-> target_user_id,
     calls |-> <<>>, outcome |-> [kind |-> "none"], checked_at |-> 0]

Ended(th, r) == [th EXCEPT !.pc = "done", !.calls = r.calls, !.outcome = r.outcome]

\* mutant: the answer of get_connection_between is not looked at
AfterGetConnectionBetweenIgnored(th, c1) ==
    [th EXCEPT !.pc = "is_blocked", !.calls = <<c1>>]

\* existing = get_connection_between(...); if existing: raise ValueError
AfterGetConnectionBetween(th, c1) ==
    IF c1.ret # None
    THEN Ended(th, Raise(<<c1>>, ValueError("Connection already exists or is pending")))
    ELSE [th EXCEPT !.pc = "is_blocked", !.calls = <<c1>>]

\* _is_blocked: is_blocked(user1, user2) or ...
AfterIsBlocked(th, b1) ==
    IF b1.ret
    THEN Ended(th, Raise(Append(th.calls, b1),
                         ValueError("Cannot connect with blocked user")))
    ELSE [th EXCEPT !.pc = "is_blocked_swapped", !.calls = Append(th.calls, b1)]

\* _is_blocked: ... or is_blocked(user2, user1)
AfterIsBlockedSwapped(th, b2) ==
    IF b2.ret
    THEN Ended(th, Raise(Append(th.calls, b2),
                         ValueError("Cannot connect with blocked user")))
    ELSE [th EXCEPT !.pc = "create_connection", !.calls = Append(th.calls, b2)]

\* connection = create_connection(...); return connection
AfterCreateConnection(th, c4) ==
    IF c4.raised THEN Ended(th, Failed(Append(th.calls, c4)))
    ELSE Ended(th, Return(Append(th.calls, c4), c4.ret))

\* a repository with a uniqueness constraint rejects the second connection
create_connection_rejects(user1_id, user2_id) ==
    unique_pairs /\ get_connection_between(user1_id, user2_id) # None

InitRace ==
    /\ inp = <<>>
    /\ call = NoCall
    /\ schedules = <<>>
    /\ connections = <<>>
    /\ blocks \in BlockSets
    /\ op = NoOp
    /\ threads = [t \in Threads |-> IdleThread]
    /\ unique_pairs \in BOOLEAN

BeginRequest(t) ==
    /\ threads[t].pc = "idle"
    /\ \E requesting_user_id \in Users, target_user_id \in Users :
          threads' = [threads EXCEPT
                         ![t] = StartedThread(requesting_user_id, target_user_id)]
    /\ UNCHANGED <<inp, call, schedules, connections, blocks, op, unique_pairs>>

CallGetConnectionBetween(t) ==
    /\ threads[t].pc = "get_connection_between"
    /\ LET th == threads[t]
           c1 == RepoCall("get_connection_between",
                          <<th.requesting_user_id, th.target_user_id>>, 1, 0,
                          get_connection_between(th.requesting_user_id,
                                                 th.target_user_id))
       IN threads' = [threads EXCEPT
                         ![t] = [AfterGetConnectionBetween(th, c1)
                                    EXCEPT !.checked_at = Len(connections)]]
    /\ UNCHANGED <<inp, call, schedules, connections, blocks, op, unique_pairs>>

CallIsBlocked(t) ==
    /\ threads[t].pc = "is_blocked"
    /\ LET th == threads[t]
           b1 == RepoCall("is_blocked", <<th.requesting_user_id, th.target_user_id>>,
                          2, 0, is_blocked(th.requesting_user_id, th.target_user_id))
       IN threads' = [threads EXCEPT ![t] = AfterIsBlocked(th, b1)]
    /\ UNCHANGED <<inp, call, schedules, connections, blocks, op, unique_pairs>>

CallIsBlockedSwapped(t) ==
    /\ threads[t].pc = "is_blocked_swapped"
    /\ LET th == threads[t]
           b2 == RepoCall("is_blocked", <<th.target_user_id, th.requesting_user_id>>,
                          3, 0, is_blocked(th.target_user_id, th.requesting_user_id))
       IN threads' = [threads EXCEPT ![t] = AfterIsBlockedSwapped(th, b2)]
    /\ UNCHANGED <<inp, call, schedules, connections, blocks, op, unique_pairs>>

CallCreateConnection(t) ==
    /\ threads[t].pc = "create_connection"
    /\ LET th == threads[t]
           k == Len(th.calls) + 1
           rejected == create_connection_rejects(th.requesting_user_id,
                                                 th.target_user_id)
           c4 == RepoCall("create_connection",
                          <<th.requesting_user_id, th.target_user_id,
                            "pending", "utcnow">>,
                          k, IF rejected THEN k ELSE 0,
                          create_connection(th.requesting_user_id, th.target_user_id,
                                            "pending", "utcnow"))
       IN /\ threads' = [threads EXCEPT ![t] = AfterCreateConnection(th, c4)]
          /\ connections' = IF c4.raised THEN connections
                            ELSE Append(connections, c4.ret)
    /\ UNCHANGED <<inp, call, schedules, blocks, op, unique_pairs>>

NextRace ==
    \E t \in Threads :
       \/ BeginRequest(t)
       \/ CallGetConnectionBetween(t)
       \/ CallIsBlocked(t)
       \/ CallIsBlockedSwapped(t)
       \/ CallCreateConnection(t)

SpecRace == InitRace /\ [][NextRace]_vars

(***************************************************************************)
(* Properties of concurrent connection requests, checked under SpecRace.   *)
(***************************************************************************)
SamePair(c, d) == Links(c, d.user1_id, d.user2_id)

Duplicated ==
    \E i, j \in 1..Len(connections) : i < j /\ SamePair(connections[i], connections[j])

Created(t) == threads[t].pc = "done" /\ threads[t].outcome.kind = "return"

ThreadMethods(t) == [i \in 1..Len(threads[t].calls) |-> threads[t].calls[i].method]

\* C11: two concurrent create_connection_request calls for one pair of users
\* can both pass the existence check and both call create_connection.  Two
\* connections for one pair arise only that way: the repository does not
\* reject the second create_connection, and the request that created the
\* later connection had its get_connection_between answered before the
\* earlier connection was stored.  The service adds nothing: a request that
\* created a connection made exactly the calls get_connection_between,
\* is_blocked, is_blocked, create_connection (no lock, no second look).  With
\* a repository whose create_connection rejects a second connection for a
\* pair there is never a duplicate, and the rejected request ends with the
\* repository's failure.
C11_DuplicatesOnlyByRace ==
    /\ unique_pairs => ~Duplicated
    /\ \A i, j \in 1..Len(connections) :
          (i < j /\ SamePair(connections[i], connections[j])) =>
             \E t \in Threads : /\ Created(t)
                                /\ threads[t].outcome.value = connections[j]
                                /\ threads[t].checked_at < i
    /\ \A t \in Threads :
          /\ Created(t) =>
                /\ ThreadMethods(t) = <<"get_connection_between", "is_blocked",
                                        "is_blocked", "create_connection">>
                /\ threads[t].outcome.value \in
                      {connections[k] : k \in 1..Len(connections)}
          /\ (threads[t].pc = "done"
                /\ threads[t].outcome = [kind |-> "raise",
                                         error |-> RepoError("create_connection")])
                => /\ unique_pairs
                   /\ get_connection_between(threads[t].requesting_user_id,
                                             threads[t].target_user_id) # None
                   /\ threads[t].checked_at
                         < get_connection_between(threads[t].requesting_user_id,
                                                  threads[t].target_user_id).id

\* C11 witness: both threads asked for the pair (1, 2), in opposite
\* directions, both had the existence check answered while the repository
\* held no connection, both created a connection: the repository holds two
\* connections linking users 1 and 2.
C11_Witness ==
    /\ ~unique_pairs
    /\ Len(connections) = 2
    /\ Links(connections[1], 1, 2)
    /\ Links(connections[2], 1, 2)
    /\ connections[1].user1_id # connections[2].user1_id
    /\ \A t \in {1, 2} : Created(t) /\ threads[t].checked_at = 0

(***************************************************************************)
(* Properties of accept_connection and of connection requests made one at  *)
(* a time, checked under Spec.                                             *)
(***************************************************************************)
HeldUnder(connection_id) ==
    {k \in 1..Len(connections) : connections[k].id = connection_id}

\* C12: accept_connection(connection_id, accepting_user_id) validates nothing
\* and calls no collaborator: whatever the id (held by no connection of the
\* repository, or by one already accepted) and whoever the accepting user (a
\* party to the connection or not), it returns the record with that id and
\* status accepted, never raises, and leaves the repository as it was.
C12_AcceptValidatesNothing ==
    IsAccept =>
        /\ op.calls = <<>>
        /\ op.outcome = [kind |-> "return",
                         value |-> [id |-> op.args.connection_id,
                                    status |-> "accepted",
                                    connected_at |-> "utcnow"]]
        /\ connections = op.connections_before

\* C12 witness: the repository holds connection 1 between users 1 and 3,
\* already accepted; user 2, no party to it, accepted it again and got the
\* accepted record.
C12_Witness ==
    /\ IsAccept
    /\ op.args = [connection_id |-> 1, accepting_user_id |-> 2]
    /\ connections # <<>>
    /\ connections[1] = Accepted(1, 1, 3)
    /\ op.outcome.kind = "return"
    /\ op.outcome.value.status = "accepted"

\* C12 witness: no connection of the repository has the accepted id.
C12_WitnessUnknownId ==
    /\ IsAccept
    /\ HeldUnder(op.args.connection_id) = {}
    /\ op.outcome.kind = "return"
    /\ op.outcome.value.id = op.args.connection_id

\* C13: with requests made one at a time against a repository that records
\* every created connection and finds a connection for either order of the
\* two users, no two connections of the repository link the same unordered
\* pair; a request for a pair that a connection already links, in either
\* direction, fails (with the conflict ValueError when the repository
\* answered), creates nothing and leaves every connection as it was.
C13_OneConnectionPerPair ==
    /\ ~Duplicated
    /\ IsCreate =>
          LET a == op.args.requesting_user_id
              b == op.args.target_user_id
          IN /\ LinkedBefore(a, b) =>
                   /\ op.outcome.kind = "raise"
                   /\ ~SomeCallRaised =>
                         op.outcome.error
                            = ValueError("Connection already exists or is pending")
                   /\ "create_connection" \notin MethodsCalled
                   /\ connections = op.connections_before
             /\ op.outcome.kind = "return" =>
                   /\ ~LinkedBefore(a, b)
                   /\ connections = Append(op.connections_before, op.outcome.value)
                   /\ Links(op.outcome.value, a, b)

\* C13 witness: a request 1 -> 2 created (pending) connection; the request
\* 2 -> 1 made after it failed with the conflict error, and the repository
\* holds that one connection for the pair, unchanged.
C13_Witness ==
    /\ IsCreate
    /\ op.args = [requesting_user_id |-> 2, target_user_id |-> 1]
    /\ \E k \in 1..Len(connections) : connections[k] = Pending(k, 1, 2)
    /\ op.outcome = [kind |-> "raise",
                     error |-> ValueError("Connection already exists or is pending")]
    /\ connections = op.connections_before

(***************************************************************************)
(* Properties of the time term and of the acceptance rules of              *)
(* _evaluate_match, checked under SpecEval and SpecFloor.                  *)
(***************************************************************************)
\* |candidate start - user end| in minutes, over the same-day pairs of classes
EvalDiffs(user_schedule, candidate_schedule) ==
    {Abs(_parse_time(candidate_schedule.classes[j].start_time)
           - _parse_time(user_schedule.classes[i].end_time)) :
        <<i, j>> \in {q \in (1..Len(user_schedule.classes))
                              \X (1..Len(candidate_schedule.classes)) :
                         user_schedule.classes[q[1]].day
                            = candidate_schedule.classes[q[2]].day}}

\* the time term is awarded: the least difference is between 1 and 15 minutes
TimeTermAwarded(user_schedule, candidate_schedule) ==
    LET diffs == EvalDiffs(user_schedule, candidate_schedule)
    IN /\ diffs # {}
       /\ \E d \in diffs : d >= 1 /\ d <= 15
       /\ 0 \notin diffs

\* 0.4 * shared classes + 0.4 * path_overlap: the score without the time term
BaseScore(user_schedule, candidate_schedule) ==
    LET n == Cardinality(CourseSet(user_schedule.classes)
                            \cap CourseSet(candidate_schedule.classes))
        p == _calculate_path_overlap(user_schedule.walking_paths,
                                     candidate_schedule.walking_paths)
    IN Rat(2 * n * p[2] + 2 * p[1], 5 * p[2])

\* the candidate, with every class that starts at the minute a same-day class
\* of the user ends starting one minute later
OneMinuteLater(user_schedule, candidate_schedule) ==
    LET ends(day) == {_parse_time(user_schedule.classes[i].end_time) :
                         i \in {k \in 1..Len(user_schedule.classes) :
                                   user_schedule.classes[k].day = day}}
        later(cls) ==
            LET m == _parse_time(cls.start_time)
            IN IF m \in ends(cls.day)
               THEN [cls EXCEPT !.start_time = TimeStr((m + 1) \div 60, (m + 1) % 60)]
               ELSE cls
    IN [candidate_schedule EXCEPT
           !.classes = [j \in 1..Len(candidate_schedule.classes) |->
                           later(candidate_schedule.classes[j])]]

\* C14: the 0.2 time term is part of the score exactly when the time
\* proximity is between 1 and 15 minutes.  When a class of the candidate
\* starts at the very minute a same-day class of the user ends, the proximity
\* is 0, not -1, and the term adds nothing, as when no proximity is found:
\* the candidate scores 0.2 less than with that class starting one minute
\* later.
C14_TimeTermNeedsPositiveProximity ==
    (IsEval /\ call.ret # None) =>
        LET us == inp.user_schedule
            cs == inp.candidate_schedule
            diffs == EvalDiffs(us, cs)
            later == _evaluate_match(us, OneMinuteLater(us, cs))
        IN /\ call.ret.score
                 = IF TimeTermAwarded(us, cs)
                   THEN RAdd(BaseScore(us, cs), <<1, 5>>)
                   ELSE BaseScore(us, cs)
           /\ TimeTermAwarded(us, cs) <=> call.ret.time_proximity_minutes \in 1..15
           /\ 0 \in diffs =>
                 /\ call.ret.time_proximity_minutes = 0
                 /\ call.ret.score = BaseScore(us, cs)
                 /\ later # None
                 /\ later.time_proximity_minutes = 1
                 /\ later.score = RAdd(call.ret.score, <<1, 5>>)
           /\ (\A d \in diffs : d > 15) =>
                 /\ call.ret.time_proximity_minutes = -1
                 /\ call.ret.score = BaseScore(us, cs)

\* C14 witness: the candidate's MATH201 starts at 10:15, when the user's
\* CS101 ends; the suggestion has proximity 0 and the score 0.4 of its one
\* shared class, and the 10:16 variant scores 0.6.
C14_Witness ==
    /\ IsEval
    /\ call.ret # None
    /\ 0 \in EvalDiffs(inp.user_schedule, inp.candidate_schedule)
    /\ call.ret.time_proximity_minutes = 0
    /\ call.ret.score = <<2, 5>>
    /\ _evaluate_match(inp.user_schedule,
                       OneMinuteLater(inp.user_schedule,
                                      inp.candidate_schedule)).score = <<3, 5>>

EvalPathOverlap ==
    _calculate_path_overlap(inp.user_schedule.walking_paths,
                            inp.candidate_schedule.walking_paths)

\* C15: for a candidate that shares no class with the user, _evaluate_match
\* returns a suggestion iff the time term is awarded and path_overlap >= 0.30,
\* or the time term is not awarded and path_overlap >= 0.75.  So no shared
\* class and no path overlap never match; and path_overlap exactly 0.30
\* matches with the time term (score 0.32) and is rejected by the 0.3 floor
\* of the score without it (score 0.12).
C15_NoSharedClassAcceptance ==
    (IsEval /\ SharedCourses = {}) =>
        LET p == EvalPathOverlap
            awarded == TimeTermAwarded(inp.user_schedule, inp.candidate_schedule)
        IN /\ (call.ret # None) <=>
                 \/ awarded /\ RLeq(<<3, 10>>, p)
                 \/ ~awarded /\ RLeq(<<3, 4>>, p)
           /\ p = RZero => call.ret = None
           /\ p = <<3, 10>> =>
                 /\ BaseScore(inp.user_schedule, inp.candidate_schedule) = <<3, 25>>
                 /\ IF awarded
                    THEN call.ret # None /\ call.ret.score = <<8, 25>>
                    ELSE call.ret = None

\* C15 witness: no shared class, path overlap exactly 0.30, the candidate's
\* class starts 15 minutes after the user's ends: a suggestion scoring 0.32.
C15_Witness ==
    /\ IsEval
    /\ SharedCourses = {}
    /\ EvalPathOverlap = <<3, 10>>
    /\ call.ret # None
    /\ call.ret.score = <<8, 25>>
    /\ call.ret.time_proximity_minutes = 15

\* C15 witness: the same overlap of 0.30 with the class starting when the
\* user's ends (proximity 0): no match.
C15_WitnessRejected ==
    /\ IsEval
    /\ SharedCourses = {}
    /\ EvalPathOverlap = <<3, 10>>
    /\ 0 \in EvalDiffs(inp.user_schedule, inp.candidate_schedule)
    /\ call.ret = None

\* C15 witness: path overlap exactly 0.75 without the time term: a suggestion
\* scoring 0.3.
C15_WitnessThreeQuarters ==
    /\ IsEval
    /\ SharedCourses = {}
    /\ EvalPathOverlap = <<3, 4>>
    /\ ~TimeTermAwarded(inp.user_schedule, inp.candidate_schedule)
    /\ call.ret # None
    /\ call.ret.score = <<3, 10>>

=============================================================================
